---- MODULE Spec2Model ----
(***************************************************************************)
(* Model of app.py: the TradingState record with its state file, the       *)
(* monitor thread (auto_monitor_loop and the four checks it calls, one     *)
(* action per statement that reads or writes the shared state or calls     *)
(* the broker), and the Flask routes that touch the state.                 *)
(*                                                                         *)
(* Optional values (Python None) are sequences: <<>> is None, <<v>> is v.  *)
(* Amounts are integers (rupees); the time of day is one of three slots:   *)
(* "early" (before 09:25), "in" (09:25..15:00), "late" (after 15:00).      *)
(***************************************************************************)
EXTENDS Integers, Sequences, FiniteSets, TLC

VARIABLES
    state,          \* trading_state.state
    default_state,  \* trading_state.default_state
    aliased,        \* TRUE when state and default_state are the same dict object
    file,           \* trading_state.json: <<>> when absent, <<record>> otherwise
    disk,           \* "ok", or "failing": open/json.dump of save_state raises
    day, slot,      \* the wall clock: calendar day and time-of-day slot
    pc,             \* position of the monitor thread
    trading_now,    \* auto_monitor_loop: local trading_now of this cycle
    now,            \* capture_morning_balance: local now (slot read at line 232)
    bal,            \* local balance / current_balance returned by get_dhan_balance
    loss,           \* check_loss_limit: local loss
    cnt,            \* check_order_limit: local order_count
    breach,         \* check_loss_limit took the branch of line 269 in this cycle
    emergencies,    \* times the branch of line 269 ran since the last reset_daily / start
    emergency,      \* the branch of line 269: what the broker held when it was taken,
                    \* and the outcome of its get_dhan_orders call
    requests,       \* cancel requests and place_dhan_order calls issued by the program
    simpc           \* position of a /simulate_order request

vars == <<state, default_state, aliased, file, disk, day, slot, pc, trading_now, now,
          bal, loss, cnt, breach, emergencies, emergency, requests,
          simpc>>

monitorLocals == <<trading_now, now, bal, loss, cnt, breach, emergency>>
handlerVars == <<simpc>>
clockVars == <<day, slot>>

(***************************************************************************)
(* Configuration and bounds                                                *)
(***************************************************************************)
MAX_ORDERS_PER_DAY == 10
MAX_LOSS_PERCENT == 20

MaxDay == 2          \* calendar days the clock runs through
MaxOrderCount == 11  \* /simulate_order is not called beyond this order_count
MaxOpen == 1         \* open orders / open positions at the broker at a breach

None == <<>>
Some(v) == <<v>>
Truthy(x) == x # None /\ x[1] # 0

Slots == {"early", "in", "late"}

\* amounts the broker reports in a balance field
BalanceValues == {-50, 0, 80, 100}

\* the text of a field of a broker answer: <<v>> reads as the number v,
\* <<>> is a text float() rejects
FieldValues == {None} \cup {Some(b) : b \in BalanceValues}

\* lines 47, 61, 84, 105: the fields looked up, in this order
FundsFields == <<"netAvailableMargin", "availableMargin", "marginAvailable", "balance">>
FundsListFields == <<"netAvailableMargin", "availableMargin", "marginAvailable">>
MarginFields == <<"marginAvailable">>
AccountFields == <<"balance", "cashBalance", "availableCash">>

\* lines 48-55 (and 106-113, 84-90): the first field of the answer that float()
\* accepts, as float() returns it; None when there is none
RECURSIVE FirstFloat(_, _)
FirstFloat(data, fields) ==
    IF fields = <<>> THEN None
    ELSE IF Head(fields) \in DOMAIN data /\ data[Head(fields)] # None
         THEN Some(data[Head(fields)][1])
         ELSE FirstFloat(data, Tail(fields))

\* JSON objects a broker endpoint answers with: some of these fields, any text in each
Dicts(fields) == UNION {[D -> FieldValues] : D \in SUBSET fields}

\* one answer of an endpoint: the request raised, the status was not 200, or a
\* body that is a JSON object
Answers(fields) ==
    {[kind |-> "raise"], [kind |-> "status"]}
       \cup {[kind |-> "dict", data |-> d] : d \in Dicts(fields)}

\* /funds may also answer with a list, of which data is the first item
FundsAnswers ==
    Answers({"netAvailableMargin", "balance"})
       \cup {[kind |-> "list", data |-> d] : d \in Dicts({"netAvailableMargin", "balance"})}

\* what /funds, /margin and /account answer to one call of get_dhan_balance
BrokerReplies ==
    [funds : FundsAnswers,
     margin : Answers({"marginAvailable"}),
     account : Answers({"cashBalance"})]

\* lines 27-123
get_dhan_balance(r) ==
    IF r.funds.kind = "raise" THEN None
    ELSE IF r.funds.kind = "dict" /\ FirstFloat(r.funds.data, FundsFields) # None
    THEN FirstFloat(r.funds.data, FundsFields)
    ELSE IF r.funds.kind = "list" /\ FirstFloat(r.funds.data, FundsListFields) # None
    THEN FirstFloat(r.funds.data, FundsListFields)
    ELSE IF r.margin.kind = "raise" THEN None
    ELSE IF r.margin.kind = "dict" /\ FirstFloat(r.margin.data, MarginFields) # None
    THEN FirstFloat(r.margin.data, MarginFields)
    ELSE IF r.account.kind = "raise" THEN None
    ELSE IF r.account.kind = "dict"
    THEN FirstFloat(r.account.data, AccountFields)
    ELSE None

\* what a call of get_dhan_balance can return: None or a float
GetDhanBalance == {get_dhan_balance(r) : r \in BrokerReplies}

\* number of today's orders in the list get_dhan_orders returns ([] on failure),
\* or "raise": an entry whose orderTimestamp is not a string (line 299 raises)
TodayCounts == {0, MAX_ORDERS_PER_DAY - 1, MAX_ORDERS_PER_DAY}

NoReason == [kind |-> "", amount |-> 0]
HoursReason == [kind |-> "Outside trading hours", amount |-> 0]
LossReason(l) == [kind |-> "20% Loss", amount |-> l]
OrdersReason == [kind |-> "orders per day", amount |-> MAX_ORDERS_PER_DAY]

NoRequests == [cancels |-> 0, exits |-> 0]
NoEmergency == [orders |-> 0, positions |-> 0, query |-> "none"]

DefaultState(d) ==
    [date |-> d, morning_balance |-> None, max_loss_amount |-> None,
     order_count |-> 0, trading_allowed |-> TRUE, blocked_reason |-> NoReason,
     last_balance_check |-> "None", current_balance |-> None]

\* load_state: <<state, state is default_state itself>>
LoadState(f, dflt) ==
    IF f # <<>>
    THEN IF f[1].date # dflt.date THEN <<dflt, TRUE>> ELSE <<f[1], FALSE>>
    ELSE <<dflt, FALSE>>

\* strftime('%H:%M:%S'): the text is kept only as "a time of day was stored"
StrfTime(s) == "HH:MM:SS"

IsTradingTime(s) == s = "in"

\* line 235: (now.hour == 9 and now.minute >= 25) or now.hour > 9
AfterStart(s) == s # "early"

MaxLossAmount(b) == (b * MAX_LOSS_PERCENT) \div 100

LossBreachStrict(st, l) == l > st.max_loss_amount[1] /\ st.trading_allowed

LossBreachUngated(st, l) == l >= st.max_loss_amount[1]

\* line 269
LossBreach(st, l) == l >= st.max_loss_amount[1] /\ st.trading_allowed

OrderBreachStrict(st, n) == n > MAX_ORDERS_PER_DAY /\ st.trading_allowed

OrderBreachUngated(st, n) == n >= MAX_ORDERS_PER_DAY

\* line 308
OrderBreach(st, n) == n >= MAX_ORDERS_PER_DAY /\ st.trading_allowed

(***************************************************************************)
(* Writes to trading_state.state[...] and save_state                       *)
(***************************************************************************)
\* a store into the dict; default_state sees it when it is the same object
Put(st) ==
    /\ state' = st
    /\ default_state' = IF aliased THEN st ELSE default_state
    /\ UNCHANGED aliased

\* save_state: json.dump of the dict, or an exception caught at line 202
SaveState(st) == file' = IF disk = "ok" THEN <<st>> ELSE file

ClearLocals ==
    /\ trading_now' = FALSE
    /\ now' = "None"
    /\ bal' = None
    /\ loss' = None
    /\ cnt' = None
    /\ breach' = FALSE
    /\ emergency' = NoEmergency

Init ==
    /\ day = 1
    /\ slot \in Slots
    /\ default_state = DefaultState(1)
    /\ state = DefaultState(1)
    /\ aliased = FALSE
    /\ file = <<>>
    /\ disk = "ok"
    /\ pc = "hours"
    /\ trading_now = FALSE
    /\ now = "None"
    /\ bal = None
    /\ loss = None
    /\ cnt = None
    /\ breach = FALSE
    /\ emergencies = 0
    /\ emergency = NoEmergency
    /\ requests = NoRequests
    /\ simpc = "idle"

(***************************************************************************)
(* The monitor thread                                                      *)
(***************************************************************************)
Goto(p) == pc' = p

MonitorHoursReopens ==
    /\ pc = "hours"
    /\ trading_now' = IsTradingTime(slot)
    /\ IF IsTradingTime(slot)
       THEN /\ Goto("cap")
            /\ Put([state EXCEPT !.trading_allowed = TRUE, !.blocked_reason = NoReason])
       ELSE /\ IF state.trading_allowed THEN Goto("h224") ELSE Goto("status")
            /\ UNCHANGED <<state, default_state, aliased>>
    /\ UNCHANGED <<file, disk, clockVars, now, bal, loss, cnt, breach, emergencies,
                   emergency, requests, handlerVars>>

\* lines 325-332, 219-222, 227-228
MonitorHours ==
    /\ pc = "hours"
    /\ trading_now' = IsTradingTime(slot)
    /\ IF IsTradingTime(slot) THEN Goto("cap")
       ELSE IF state.trading_allowed THEN Goto("h224") ELSE Goto("status")
    /\ UNCHANGED <<state, default_state, aliased, file, disk, clockVars, now, bal, loss,
                   cnt, breach, emergencies, emergency, requests,
                   handlerVars>>

\* line 224
MonitorH224 ==
    /\ pc = "h224"
    /\ Put([state EXCEPT !.trading_allowed = FALSE])
    /\ Goto("h225")
    /\ UNCHANGED <<file, disk, clockVars, monitorLocals, emergencies, requests, handlerVars>>

\* line 225
MonitorH225 ==
    /\ pc = "h225"
    /\ Put([state EXCEPT !.blocked_reason = HoursReason])
    /\ Goto("h226")
    /\ UNCHANGED <<file, disk, clockVars, monitorLocals, emergencies, requests, handlerVars>>

\* line 226
MonitorH226 ==
    /\ pc = "h226"
    /\ SaveState(state)
    /\ Goto("status")
    /\ UNCHANGED <<state, default_state, aliased, disk, clockVars, trading_now, now, bal,
                   loss, cnt, breach, emergencies, emergency, requests, handlerVars>>

MonitorCapAgain ==
    /\ pc = "cap"
    /\ now' = slot
    /\ IF AfterStart(slot) THEN Goto("cap238") ELSE Goto("loss")
    /\ UNCHANGED <<state, default_state, aliased, file, disk, clockVars, trading_now,
                   bal, loss, cnt, breach, emergencies, emergency, requests,
                   handlerVars>>

\* lines 232-236
MonitorCap ==
    /\ pc = "cap"
    /\ now' = slot
    /\ IF AfterStart(slot) /\ state.morning_balance = None
       THEN Goto("cap238") ELSE Goto("loss")
    /\ UNCHANGED <<state, default_state, aliased, file, disk, clockVars, trading_now, bal,
                   loss, cnt, breach, emergencies, emergency, requests,
                   handlerVars>>

\* lines 238-240, 250
MonitorCap238 ==
    /\ pc = "cap238"
    /\ \E b \in GetDhanBalance :
          /\ bal' = b
          /\ IF Truthy(b) THEN Goto("cap242") ELSE Goto("loss")
    /\ UNCHANGED <<state, default_state, aliased, file, disk, clockVars, trading_now, now,
                   loss, cnt, breach, emergencies, emergency, requests,
                   handlerVars>>

\* line 242
MonitorCap242 ==
    /\ pc = "cap242"
    /\ Put([state EXCEPT !.morning_balance = bal])
    /\ Goto("cap243")
    /\ UNCHANGED <<file, disk, clockVars, monitorLocals, emergencies, requests, handlerVars>>

\* line 243
MonitorCap243 ==
    /\ pc = "cap243"
    /\ Put([state EXCEPT !.max_loss_amount = Some(MaxLossAmount(bal[1]))])
    /\ Goto("cap244")
    /\ UNCHANGED <<file, disk, clockVars, monitorLocals, emergencies, requests, handlerVars>>

\* line 244
MonitorCap244 ==
    /\ pc = "cap244"
    /\ Put([state EXCEPT !.current_balance = bal])
    /\ Goto("cap245")
    /\ UNCHANGED <<file, disk, clockVars, monitorLocals, emergencies, requests, handlerVars>>

\* line 245
MonitorCap245 ==
    /\ pc = "cap245"
    /\ Put([state EXCEPT !.last_balance_check = StrfTime(now)])
    /\ Goto("cap246")
    /\ UNCHANGED <<file, disk, clockVars, monitorLocals, emergencies, requests, handlerVars>>

\* lines 246-248
MonitorCap246 ==
    /\ pc = "cap246"
    /\ SaveState(state)
    /\ Goto("loss")
    /\ UNCHANGED <<state, default_state, aliased, disk, clockVars, trading_now, now, bal,
                   loss, cnt, breach, emergencies, emergency, requests, handlerVars>>

\* line 256
MonitorLoss ==
    /\ pc = "loss"
    /\ bal' = None
    /\ IF Truthy(state.morning_balance) THEN Goto("loss257") ELSE Goto("ord290")
    /\ UNCHANGED <<state, default_state, aliased, file, disk, clockVars, trading_now, now,
                   loss, cnt, breach, emergencies, emergency, requests,
                   handlerVars>>

\* lines 257-259
MonitorLoss257 ==
    /\ pc = "loss257"
    /\ \E b \in GetDhanBalance :
          /\ bal' = b
          /\ IF Truthy(b) THEN Goto("loss260") ELSE Goto("loss284")
    /\ UNCHANGED <<state, default_state, aliased, file, disk, clockVars, trading_now, now,
                   loss, cnt, breach, emergencies, emergency, requests,
                   handlerVars>>

\* line 260
MonitorLoss260 ==
    /\ pc = "loss260"
    /\ Put([state EXCEPT !.current_balance = bal])
    /\ Goto("loss261")
    /\ UNCHANGED <<file, disk, clockVars, monitorLocals, emergencies, requests, handlerVars>>

\* line 261
MonitorLoss261 ==
    /\ pc = "loss261"
    /\ Put([state EXCEPT !.last_balance_check = StrfTime(slot)])
    /\ Goto("loss263")
    /\ UNCHANGED <<file, disk, clockVars, monitorLocals, emergencies, requests, handlerVars>>

\* line 263; a morning_balance of None raises TypeError
MonitorLoss263 ==
    /\ pc = "loss263"
    /\ IF state.morning_balance = None
       THEN Goto("exc") /\ UNCHANGED loss
       ELSE Goto("loss264") /\ loss' = Some(state.morning_balance[1] - bal[1])
    /\ UNCHANGED <<state, default_state, aliased, file, disk, clockVars, trading_now, now,
                   bal, cnt, breach, emergencies, emergency, requests,
                   handlerVars>>

\* lines 264-266; morning_balance > 0 raises TypeError on None
MonitorLoss264 ==
    /\ pc = "loss264"
    /\ IF state.morning_balance = None THEN Goto("exc") ELSE Goto("loss269")
    /\ UNCHANGED <<state, default_state, aliased, file, disk, clockVars, monitorLocals,
                   emergencies, requests, handlerVars>>

\* line 269; loss >= None raises TypeError
MonitorLoss269 ==
    /\ pc = "loss269"
    /\ IF state.max_loss_amount = None
       THEN Goto("exc") /\ UNCHANGED breach
       ELSE IF LossBreach(state, loss[1])
            THEN Goto("loss271") /\ breach' = TRUE
            ELSE Goto("loss284") /\ UNCHANGED breach
    /\ UNCHANGED <<state, default_state, aliased, file, disk, clockVars, trading_now, now,
                   bal, loss, cnt, emergencies, emergency, requests,
                   handlerVars>>

\* lines 270-271; the broker holds some open orders and positions at this moment
MonitorLoss271 ==
    /\ pc = "loss271"
    /\ Put([state EXCEPT !.trading_allowed = FALSE])
    /\ emergencies' = IF emergencies < 2 THEN emergencies + 1 ELSE emergencies
    /\ \E o \in 0..MaxOpen, p \in 0..MaxOpen :
          emergency' = [orders |-> o, positions |-> p, query |-> "none"]
    /\ Goto("loss272")
    /\ UNCHANGED <<file, disk, clockVars, trading_now, now, bal, loss, cnt, breach,
                   requests, handlerVars>>

\* line 272
MonitorLoss272 ==
    /\ pc = "loss272"
    /\ Put([state EXCEPT !.blocked_reason = LossReason(loss[1])])
    /\ Goto("loss273")
    /\ UNCHANGED <<file, disk, clockVars, monitorLocals, emergencies, requests, handlerVars>>

\* line 273
MonitorLoss273 ==
    /\ pc = "loss273"
    /\ SaveState(state)
    /\ Goto("loss277")
    /\ UNCHANGED <<state, default_state, aliased, disk, clockVars, trading_now, now, bal,
                   loss, cnt, breach, emergencies, emergency, requests, handlerVars>>

\* lines 276-282: get_dhan_orders answers with a list ([] when the request
\* fails) whose length is logged, or len() raises and the except clause passes;
\* nothing is sent to the broker
MonitorLoss277 ==
    /\ pc = "loss277"
    /\ \E q \in {"ok", "failed"} : emergency' = [emergency EXCEPT !.query = q]
    /\ Goto("ord290")
    /\ UNCHANGED <<state, default_state, aliased, file, disk, clockVars, trading_now,
                   now, bal, loss, cnt, breach, emergencies, requests, handlerVars>>

MonitorLoss284FailClosed ==
    /\ pc = "loss284"
    /\ IF bal = None
       THEN Put([state EXCEPT !.trading_allowed = FALSE])
       ELSE UNCHANGED <<state, default_state, aliased>>
    /\ SaveState(state')
    /\ Goto("ord290")
    /\ UNCHANGED <<disk, clockVars, trading_now, now, bal, loss, cnt, breach,
                   emergencies, emergency, requests, handlerVars>>

\* line 284
MonitorLoss284 ==
    /\ pc = "loss284"
    /\ SaveState(state)
    /\ Goto("ord290")
    /\ UNCHANGED <<state, default_state, aliased, disk, clockVars, trading_now, now, bal,
                   loss, cnt, breach, emergencies, emergency, requests, handlerVars>>

\* lines 290-302
MonitorOrd290 ==
    /\ pc = "ord290"
    /\ \/ \E n \in TodayCounts : cnt' = Some(n) /\ Goto("ord305")
       \/ cnt' = None /\ Goto("exc")
    /\ UNCHANGED <<state, default_state, aliased, file, disk, clockVars, trading_now, now,
                   bal, loss, breach, emergencies, emergency, requests,
                   handlerVars>>

\* line 305
MonitorOrd305 ==
    /\ pc = "ord305"
    /\ Put([state EXCEPT !.order_count = cnt[1]])
    /\ Goto("ord308")
    /\ UNCHANGED <<file, disk, clockVars, monitorLocals, emergencies, requests, handlerVars>>

\* line 308
MonitorOrd308 ==
    /\ pc = "ord308"
    /\ IF OrderBreach(state, cnt[1]) THEN Goto("ord310") ELSE Goto("ord315")
    /\ UNCHANGED <<state, default_state, aliased, file, disk, clockVars, monitorLocals,
                   emergencies, requests, handlerVars>>

\* lines 309-310
MonitorOrd310 ==
    /\ pc = "ord310"
    /\ Put([state EXCEPT !.trading_allowed = FALSE])
    /\ Goto("ord311")
    /\ UNCHANGED <<file, disk, clockVars, monitorLocals, emergencies, requests, handlerVars>>

\* line 311
MonitorOrd311 ==
    /\ pc = "ord311"
    /\ Put([state EXCEPT !.blocked_reason = OrdersReason])
    /\ Goto("ord312")
    /\ UNCHANGED <<file, disk, clockVars, monitorLocals, emergencies, requests, handlerVars>>

\* lines 312-313
MonitorOrd312 ==
    /\ pc = "ord312"
    /\ SaveState(state)
    /\ Goto("status")
    /\ UNCHANGED <<state, default_state, aliased, disk, clockVars, trading_now, now, bal,
                   loss, cnt, breach, emergencies, emergency, requests, handlerVars>>

\* lines 315-316
MonitorOrd315 ==
    /\ pc = "ord315"
    /\ SaveState(state)
    /\ Goto("status")
    /\ UNCHANGED <<state, default_state, aliased, disk, clockVars, trading_now, now, bal,
                   loss, cnt, breach, emergencies, emergency, requests, handlerVars>>

\* lines 343-346: the status line, then time.sleep(30)
MonitorStatus ==
    /\ pc = "status"
    /\ ClearLocals
    /\ Goto("hours")
    /\ UNCHANGED <<state, default_state, aliased, file, disk, clockVars, emergencies,
                   requests, handlerVars>>

MonitorExceptStops ==
    /\ pc = "exc"
    /\ UNCHANGED vars

\* lines 348-350: the exception is logged, then time.sleep(60)
MonitorExcept ==
    /\ pc = "exc"
    /\ ClearLocals
    /\ Goto("hours")
    /\ UNCHANGED <<state, default_state, aliased, file, disk, clockVars, emergencies,
                   requests, handlerVars>>

Monitor ==
    \/ MonitorHours \/ MonitorH224 \/ MonitorH225 \/ MonitorH226
    \/ MonitorCap \/ MonitorCap238 \/ MonitorCap242 \/ MonitorCap243
    \/ MonitorCap244 \/ MonitorCap245 \/ MonitorCap246
    \/ MonitorLoss \/ MonitorLoss257 \/ MonitorLoss260 \/ MonitorLoss261
    \/ MonitorLoss263 \/ MonitorLoss264 \/ MonitorLoss269 \/ MonitorLoss271
    \/ MonitorLoss272 \/ MonitorLoss273 \/ MonitorLoss277 \/ MonitorLoss284
    \/ MonitorOrd290 \/ MonitorOrd305 \/ MonitorOrd308 \/ MonitorOrd310
    \/ MonitorOrd311 \/ MonitorOrd312 \/ MonitorOrd315
    \/ MonitorStatus \/ MonitorExcept

(***************************************************************************)
(* The Flask routes                                                        *)
(***************************************************************************)
\* lines 358-368: the new balance is stored, save_state is not called
Dashboard ==
    /\ \E b \in GetDhanBalance :
          IF Truthy(b)
          THEN Put([state EXCEPT !.current_balance = b, !.last_balance_check = StrfTime(slot)])
          ELSE UNCHANGED <<state, default_state, aliased>>
    /\ UNCHANGED <<file, disk, clockVars, pc, monitorLocals, emergencies, requests,
                   handlerVars>>

\* lines 429-435
Health == UNCHANGED vars

\* lines 437-445
CheckBalance ==
    /\ \E b \in GetDhanBalance :
          IF Truthy(b)
          THEN /\ Put([state EXCEPT !.current_balance = b, !.last_balance_check = StrfTime(slot)])
               /\ SaveState(state')
          ELSE UNCHANGED <<state, default_state, aliased, file>>
    /\ UNCHANGED <<disk, clockVars, pc, monitorLocals, emergencies, requests, handlerVars>>

\* lines 454-469
CheckOrders ==
    /\ \E n \in TodayCounts :
          /\ Put([state EXCEPT !.order_count = n])
          /\ SaveState(state')
    /\ UNCHANGED <<disk, clockVars, pc, monitorLocals, emergencies, requests, handlerVars>>

\* lines 479-486
CheckPositions == UNCHANGED vars

\* lines 509-512, 205-207: reset_daily
Reset ==
    /\ state' = default_state
    /\ aliased' = FALSE
    /\ SaveState(state')
    /\ emergencies' = 0
    /\ UNCHANGED <<default_state, disk, clockVars, pc, monitorLocals, requests, handlerVars>>

\* line 523: the gate is read
SimulateOrder ==
    /\ simpc = "idle"
    /\ state.order_count < MaxOrderCount
    /\ simpc' = IF ~state.trading_allowed THEN "s524" ELSE "s529"
    /\ UNCHANGED <<state, default_state, aliased, file, disk, clockVars, pc,
                   monitorLocals, emergencies, requests>>

\* the answer of lines 524-527, built from the state as it is now
SimulateOrderResponse(st) == [error |-> "TRADING_BLOCKED", reason |-> st.blocked_reason]

\* lines 524-527: blocked_reason is read and the request is answered
SimulateOrderBlocked ==
    /\ simpc = "s524"
    /\ simpc' = "idle"
    /\ UNCHANGED <<state, default_state, aliased, file, disk, clockVars, pc,
                   monitorLocals, emergencies, requests>>

\* lines 529-536
SimulateOrderCommit ==
    /\ simpc = "s529"
    /\ Put([state EXCEPT !.order_count = @ + 1])
    /\ SaveState(state')
    /\ simpc' = "idle"
    /\ UNCHANGED <<disk, clockVars, pc, monitorLocals, emergencies, requests>>

(***************************************************************************)
(* The environment: the clock, and a stop and start of the process         *)
(***************************************************************************)
ClockTick ==
    /\ \/ slot = "early" /\ slot' = "in"
       \/ slot = "in" /\ slot' = "late"
    /\ UNCHANGED <<state, default_state, aliased, file, disk, day, pc, monitorLocals,
                   emergencies, requests, handlerVars>>

Midnight ==
    /\ slot = "late"
    /\ day < MaxDay
    /\ slot' = "early"
    /\ day' = day + 1
    /\ UNCHANGED <<state, default_state, aliased, file, disk, pc, monitorLocals,
                   emergencies, requests, handlerVars>>

\* the state file becomes unwritable, or writable again (lines 202-203)
DiskFlip ==
    /\ disk' = IF disk = "ok" THEN "failing" ELSE "ok"
    /\ UNCHANGED <<state, default_state, aliased, file, clockVars, pc, monitorLocals,
                   emergencies, requests, handlerVars>>

\* lines 169-181, 183-196, 211, 353-354: the module is loaded again
Restart ==
    /\ default_state' = DefaultState(day)
    /\ state' = LoadState(file, DefaultState(day))[1]
    /\ aliased' = LoadState(file, DefaultState(day))[2]
    /\ pc' = "hours"
    /\ ClearLocals
    /\ emergencies' = 0
    /\ simpc' = "idle"
    /\ UNCHANGED <<file, disk, clockVars, requests>>

(***************************************************************************)
(* Specifications                                                          *)
(***************************************************************************)
\* the monitor thread sleeps between two cycles and no request is being served
AtRest == pc = "hours" /\ simpc = "idle"

\* Requests are served one at a time while the monitor thread sleeps between two
\* cycles, and the monitor runs while no request is being served.
Next ==
    \/ simpc = "idle" /\ MonitorHours
    \/ simpc = "idle" /\ MonitorH224
    \/ simpc = "idle" /\ MonitorH225
    \/ simpc = "idle" /\ MonitorH226
    \/ simpc = "idle" /\ MonitorCap
    \/ simpc = "idle" /\ MonitorCap238
    \/ simpc = "idle" /\ MonitorCap242
    \/ simpc = "idle" /\ MonitorCap243
    \/ simpc = "idle" /\ MonitorCap244
    \/ simpc = "idle" /\ MonitorCap245
    \/ simpc = "idle" /\ MonitorCap246
    \/ simpc = "idle" /\ MonitorLoss
    \/ simpc = "idle" /\ MonitorLoss257
    \/ simpc = "idle" /\ MonitorLoss260
    \/ simpc = "idle" /\ MonitorLoss261
    \/ simpc = "idle" /\ MonitorLoss263
    \/ simpc = "idle" /\ MonitorLoss264
    \/ simpc = "idle" /\ MonitorLoss269
    \/ simpc = "idle" /\ MonitorLoss271
    \/ simpc = "idle" /\ MonitorLoss272
    \/ simpc = "idle" /\ MonitorLoss273
    \/ simpc = "idle" /\ MonitorLoss277
    \/ simpc = "idle" /\ MonitorLoss284
    \/ simpc = "idle" /\ MonitorOrd290
    \/ simpc = "idle" /\ MonitorOrd305
    \/ simpc = "idle" /\ MonitorOrd308
    \/ simpc = "idle" /\ MonitorOrd310
    \/ simpc = "idle" /\ MonitorOrd311
    \/ simpc = "idle" /\ MonitorOrd312
    \/ simpc = "idle" /\ MonitorOrd315
    \/ simpc = "idle" /\ MonitorStatus
    \/ simpc = "idle" /\ MonitorExcept
    \/ AtRest /\ Dashboard
    \/ AtRest /\ Health
    \/ AtRest /\ CheckBalance
    \/ AtRest /\ CheckOrders
    \/ AtRest /\ CheckPositions
    \/ AtRest /\ Reset
    \/ AtRest /\ SimulateOrder
    \/ SimulateOrderBlocked
    \/ SimulateOrderCommit
    \/ ClockTick
    \/ Midnight

Spec == Init /\ [][Next]_vars

\* /reset and /simulate_order are served by their own threads at any point of a
\* cycle, within one day.
NextConc ==
    \/ Monitor
    \/ Reset
    \/ SimulateOrder
    \/ SimulateOrderBlocked
    \/ SimulateOrderCommit
    \/ ClockTick

SpecConc == Init /\ [][NextConc]_vars

\* The process is stopped and started again at any point; the clock moves
\* while the monitor sleeps between two cycles, where /reset is served too; a
\* state file that does not exist yet may be one that cannot be created.
NextRestart ==
    \/ Monitor
    \/ Restart
    \/ AtRest /\ Reset
    \/ pc = "hours" /\ ClockTick
    \/ pc = "hours" /\ Midnight
    \/ AtRest /\ file = <<>> /\ DiskFlip

SpecRestart == Init /\ [][NextRestart]_vars

\* The monitor thread is scheduled again and again (a daemon thread of a
\* running process); /reset is served between two cycles, within one day.
NextLive ==
    \/ Monitor
    \/ AtRest /\ Reset
    \/ ClockTick

SpecLive == Init /\ [][NextLive]_vars /\ WF_vars(Monitor)

(***************************************************************************)
(* Properties                                                              *)
(***************************************************************************)
LossBlocked == ~state.trading_allowed /\ state.blocked_reason.kind = "20% Loss"
OrdersBlocked == ~state.trading_allowed /\ state.blocked_reason = OrdersReason

\* C1: once trading_allowed is false with the loss reason or the order-limit
\* reason stored, every step of the monitor and of every route other than
\* /reset leaves trading_allowed false.
C1_BlockedUntilReset ==
    [][(LossBlocked \/ OrdersBlocked) /\ ~Reset => ~state'.trading_allowed]_vars

\* a later cycle reads a recovered balance while the loss block is stored
C1_Witness ==
    /\ LossBlocked
    /\ pc = "loss284"
    /\ bal = Some(100)
    /\ loss = Some(0)

\* C2: a cycle outside trading hours ends with the gate closed and a reason
\* stored, and a cycle inside trading hours in which neither the loss limit
\* nor the order limit is reached does not end with the hours reason still
\* stored: the gate has been opened again and the reason cleared.
C2_HoursBlockLifted ==
    pc = "status" =>
       /\ ~trading_now => ~state.trading_allowed /\ state.blocked_reason # NoReason
       /\ ( /\ trading_now
            /\ loss # None => loss[1] < state.max_loss_amount[1]
            /\ cnt # None /\ cnt[1] < MAX_ORDERS_PER_DAY )
          => state.blocked_reason # HoursReason

\* C3: a cycle that starts with a state of another day replaces the state by
\* the default record of today and runs no further check.
C3_DayRollover ==
    [][pc = "hours" /\ pc' # "hours" /\ state.date # day
          => state' = DefaultState(day) /\ pc' = "status"]_vars

\* C4: when a cycle that took the loss branch ends, a cancel request was issued
\* for every order and an exit order was placed for every position the broker
\* held at the breach.
C4_UnwindAll ==
    pc = "status" /\ breach =>
       /\ requests.cancels = emergency.orders
       /\ requests.exits = emergency.positions

C6_EmergencyOnce == emergencies <= 1

\* a later cycle reads a balance beyond the limit again and skips the branch
C6_Witness ==
    /\ emergencies = 1
    /\ ~breach
    /\ pc = "loss284"
    /\ loss # None
    /\ state.max_loss_amount # None
    /\ loss[1] >= state.max_loss_amount[1]

\* C7: with MAX_ORDERS_PER_DAY or more orders counted and trading_allowed true,
\* check_order_limit takes the branch of line 308, which leaves trading_allowed
\* false with the order-limit reason; no cancel or exit request is issued.
C7_OrderLimitBlocks ==
    /\ pc = "ord315" => ~(cnt[1] >= MAX_ORDERS_PER_DAY /\ state.trading_allowed)
    /\ pc = "ord312" => OrdersBlocked
    /\ pc = "status" /\ cnt # None /\ cnt[1] >= MAX_ORDERS_PER_DAY
          => ~state.trading_allowed /\ state.blocked_reason # NoReason
    /\ requests = NoRequests

\* exactly MAX_ORDERS_PER_DAY orders, no loss branch in this cycle
C7_Witness ==
    /\ pc = "ord312"
    /\ cnt = Some(MAX_ORDERS_PER_DAY)
    /\ ~breach
    /\ trading_now
    /\ OrdersBlocked

\* C8: get_dhan_balance is called for the capture only in a cycle that found
\* the time inside trading hours and at a time not before 09:25, and a
\* morning_balance that is set is changed by no step other than /reset.
C8_CaptureOnce ==
    /\ [](pc = "cap238" => trading_now /\ now # "early")
    /\ [][state.morning_balance # None /\ ~Reset
             => state'.morning_balance = state.morning_balance]_vars

\* a later cycle reads another balance than the captured one
C8_Witness ==
    /\ state.morning_balance = Some(100)
    /\ bal = Some(80)
    /\ pc = "loss263"

\* C9: between two cycles, with no request in progress, max_loss_amount is set
\* if and only if morning_balance is set, and then it is 20% of it.
C9_LossCeiling ==
    AtRest =>
       /\ (state.max_loss_amount # None) <=> (state.morning_balance # None)
       /\ state.morning_balance # None
             => state.max_loss_amount = Some(MaxLossAmount(state.morning_balance[1]))

\* C10: a /simulate_order request that found the gate closed never answers
\* TRADING_BLOCKED with an empty reason.
C10_BlockedAnswerHasReason ==
    simpc = "s524" => SimulateOrderResponse(state).reason # NoReason

\* C11: within one day, no step other than /reset lowers order_count.
C11_OrderCountMonotone ==
    [][~Reset /\ day' = day => state'.order_count >= state.order_count]_vars

\* C12: the value a call of get_dhan_balance in the monitor cycle returned is
\* None or a number greater than 0.
C12_BalancePositive == bal # None => bal[1] > 0

\* C13: a /reset served during a cycle leaves, once the cycle has ended, a
\* state that the two produce when run one after the other: the state file
\* holds the state in memory, and a record without morning_balance holds no
\* current_balance written by the cycle.
C13_ResetCycleSerial ==
    AtRest =>
       /\ file # <<>> => file[1] = state
       /\ state.current_balance # None => state.morning_balance # None

\* C14: when the process is stopped at the end of a cycle that left
\* trading_allowed false and whose state is in the state file, and is started
\* again on that day, the loaded state has trading_allowed false and the same
\* blocked_reason, morning_balance and max_loss_amount.
C14_RestartKeepsBlock ==
    [][pc = "status" /\ ~state.trading_allowed /\ file = <<state>> /\ Restart
          => /\ ~state'.trading_allowed
             /\ state'.blocked_reason = state.blocked_reason
             /\ state'.morning_balance = state.morning_balance
             /\ state'.max_loss_amount = state.max_loss_amount]_vars

\* the fields that decide whether trading is allowed
RiskFields(st) ==
    <<st.trading_allowed, st.blocked_reason, st.morning_balance, st.max_loss_amount>>

\* C15: a step of /, /check_balance, /check_orders, /check_positions or /health
\* leaves trading_allowed, blocked_reason, morning_balance, max_loss_amount and
\* order_count as they were.
C15_ReadOnlyRoutes ==
    [][Dashboard \/ Health \/ CheckBalance \/ CheckOrders \/ CheckPositions
          => /\ RiskFields(state') = RiskFields(state)
             /\ state'.order_count = state.order_count]_vars

\* in the capture and in the loss check, a get_dhan_balance that returned
\* None is followed by no write to the state
FailedFetchFrame ==
    /\ pc = "cap238" /\ bal' = None => state' = state
    /\ pc = "loss257" /\ bal' = None => state' = state /\ pc' \in {"loss257", "loss284"}
    /\ pc = "loss284" /\ bal = None => state' = state

\* C16: in a cycle whose get_dhan_balance returned None, capture_morning_balance
\* and check_loss_limit leave the state as it was: the loss check goes to its
\* final save_state without a write.
C16_FailedFetchNoChange == [][FailedFetchFrame]_vars

\* the loss check of a later cycle gets no balance while an earlier reading is stored
C16_Witness ==
    /\ pc = "loss284"
    /\ bal = None
    /\ state.morning_balance = Some(100)
    /\ state.current_balance = Some(80)
    /\ state.trading_allowed

\* C17: the state a /reset leaves is the default record: trading_allowed true,
\* blocked_reason empty, order_count 0, morning_balance and max_loss_amount
\* None, whatever the state file held when the process was started.
C17_ResetYieldsDefault ==
    [][Reset => /\ state'.trading_allowed
                /\ state'.blocked_reason = NoReason
                /\ state'.order_count = 0
                /\ state'.morning_balance = None
                /\ state'.max_loss_amount = None]_vars

\* the statements of capture_morning_balance, check_loss_limit and check_order_limit
InHoursChecks ==
    {"cap", "cap238", "cap242", "cap243", "cap244", "cap245", "cap246",
     "loss", "loss257", "loss260", "loss261", "loss263", "loss264", "loss269",
     "loss271", "loss272", "loss273", "loss277", "loss284",
     "ord290", "ord305", "ord308", "ord310", "ord311", "ord312", "ord315"}

\* C18: outside /reset, blocked_reason is written only by lines 225, 272 and
\* 311, each time over an empty reason and with trading_allowed just set to
\* false; a cycle that took the loss branch keeps the loss reason to its end
\* even when it counts MAX_ORDERS_PER_DAY orders or more; and the capture, the
\* loss check and the order check run only in a cycle that found the time
\* inside trading hours.
C18_FirstReasonWins ==
    /\ [][state'.blocked_reason # state.blocked_reason /\ ~Reset
             => /\ pc \in {"h225", "loss272", "ord311"}
                /\ state.blocked_reason = NoReason
                /\ ~state'.trading_allowed]_vars
    /\ [](breach /\ pc \notin {"loss271", "loss272"}
             => state.blocked_reason = LossReason(loss[1]))
    /\ [](pc \in InHoursChecks => trading_now)

\* a cycle that took the loss branch also counted MAX_ORDERS_PER_DAY orders
C18_Witness ==
    /\ pc = "status"
    /\ breach
    /\ cnt = Some(MAX_ORDERS_PER_DAY)
    /\ state.blocked_reason = LossReason(20)
    /\ ~state.trading_allowed

\* C19: line 529 increments order_count only while trading_allowed is true,
\* and a request answered TRADING_BLOCKED leaves the state as it was.
C19_SimulateOrderGate ==
    [][/\ SimulateOrderCommit => state.trading_allowed
       /\ SimulateOrderBlocked => state' = state]_vars

\* C20: a capture whose get_dhan_balance returned nothing usable leaves
\* morning_balance and max_loss_amount None; every cycle that reaches the
\* capture with morning_balance None calls get_dhan_balance again; a balance
\* the capture accepted is stored as morning_balance; and every cycle, one
\* that raised an exception included, is followed by the start of the next.
C20_CaptureRetried ==
    /\ [][pc = "cap238" /\ ~Truthy(bal') => state' = state]_vars
    /\ (pc = "cap" /\ state.morning_balance = None) ~> (pc = "cap238")
    /\ (pc = "cap242") ~> (state.morning_balance # None)
    /\ (pc = "exc") ~> (pc = "hours")
    /\ []<>(pc = "hours")

\* a cycle that counted orders ended with morning_balance None, and a later
\* cycle captures a balance
C20_Witness ==
    /\ pc = "cap243"
    /\ state.order_count = MAX_ORDERS_PER_DAY - 1
    /\ state.morning_balance = Some(100)
    /\ state.max_loss_amount = None

\* C21: order_count never exceeds MAX_ORDERS_PER_DAY, so the 'remaining' value
\* MAX_ORDERS_PER_DAY - order_count that /simulate_order reports is never negative.
C21_OrderCountBounded == state.order_count <= MAX_ORDERS_PER_DAY

====
